---- MODULE Spec2Model ----
(***************************************************************************)
(* Mastery tracking and adaptive study planning of the Adaptive Medical    *)
(* Learning System backend (backend/app/mastery, backend/app/recommender, *)
(* backend/app/quiz).                                                      *)
(*                                                                         *)
(* Numbers.  mastery_score is a Python float.  It is modelled in fixed     *)
(* point, in units of 1/Scale, and every arithmetic result is rounded to   *)
(* the nearest unit, ties to even, as IEEE-754 rounds a double to the      *)
(* nearest unit in the last place.  Scores in [0.5, 1.0) are multiples of  *)
(* 2^-53 in the code and multiples of 1/Scale here.                        *)
(*                                                                         *)
(* Time.  utcnow() is modelled by the clock `now`, counted in ticks of     *)
(* 1/TicksPerDay day; days_since truncates to whole days as timedelta.days *)
(* does.                                                                   *)
(***************************************************************************)
EXTENDS Integers, Sequences, FiniteSets, TLC

\* ------------------------------------------------------------- bounds
NumUsers == 1
NumTopics == 2
MaxReviews == 3
MaxTime == 3
TicksPerDay == 2
MaxLimit == 2

\* ---------------------------------------------------- program constants
\* One unit of score is 1/Scale; the planner itself reports scores rounded
\* to three decimals.
Scale == 1000
MASTERY_INITIAL_SCORE == 0
MASTERY_CORRECT_INCREMENT == 100
MASTERY_INCORRECT_DECREMENT == 50
\* calculate_review_priority: the scores 0.7 and 0.85, the 2 and 7 days,
\* and the days of a record never reviewed
WEAK_SCORE == 700
STRONG_SCORE == 850
WEAK_REVIEW_DAYS == 2
MEDIUM_REVIEW_DAYS == 7
NEVER_REVIEWED_DAYS == 9999
\* last_reviewed_at IS NULL
Never == -1

\* The ids a request may name: NumUsers + 1 and NumTopics + 1 name no row
UserIds == 1..(NumUsers + 1)
TopicIds == 1..(NumTopics + 1)

VARIABLES
    compensated_sum, \* the interpreter's sum() of floats is compensated
                     \* (CPython 3.12 and later) or adds one by one
    plan_logs,    \* the study_plan_logs table
    quiz_answers, \* the quiz_answers table
    sessions,     \* the database sessions of requests in flight
    users,        \* the ids of the users table
    topics,       \* the ids of the topics table, in storage order
    now,          \* utcnow(), in ticks
    masteries,    \* the masteries table: a sequence of rows, in storage order
    ret,          \* the last call and what it returned
    updates,      \* history: update_mastery_from_quiz calls made, per (user, topic)
    otp_storage   \* auth/service.py's dict: phone number -> the OTP issued for it

vars == <<compensated_sum, plan_logs, quiz_answers, sessions, users, topics, now, masteries,
          ret, updates, otp_storage>>

\* The variables only the plan, quiz and auth services touch
service_vars == <<compensated_sum, plan_logs, quiz_answers, otp_storage>>

\* otp_storage = {} when the module is loaded
NoOtp == << >>

Range(s) == {s[i] : i \in 1..Len(s)}

\* users.id and topics.id that exist
Users == users
Topics == Range(topics)

Min(a, b) == IF a <= b THEN a ELSE b
Max(a, b) == IF a >= b THEN a ELSE b

\* n/d rounded to the nearest integer, ties to even (n >= 0, d > 0)
RoundHalfEven(n, d) ==
    LET q == n \div d
        r == n % d
    IN  IF 2 * r < d THEN q
        ELSE IF 2 * r > d THEN q + 1
        ELSE IF q % 2 = 0 THEN q ELSE q + 1

\* ------------------------------------------------- double arithmetic
\* Python floats are IEEE-754 doubles.  A natural number below 2^63 is a
\* triple <<high, middle, low>> of limbs below LimbBase = 2^21; a positive
\* double is [m, e] for the value m * 2^e with m < 2^53.
LimbBase == 2097152
LimbBits == 21
MantissaBits == 53

NatFromInt(n) == <<0, n \div LimbBase, n % LimbBase>>

\* for a < 2^31
NatToInt(a) == a[2] * LimbBase + a[3]

NatZero == <<0, 0, 0>>

NatAdd(a, b) ==
    LET l == a[3] + b[3]
        m == a[2] + b[2] + l \div LimbBase
    IN  <<a[1] + b[1] + m \div LimbBase, m % LimbBase, l % LimbBase>>

\* a - b for a >= b
NatSub(a, b) ==
    LET l == a[3] - b[3]
        m == a[2] - b[2] - (IF l < 0 THEN 1 ELSE 0)
    IN  <<a[1] - b[1] - (IF m < 0 THEN 1 ELSE 0),
          (m + LimbBase) % LimbBase, (l + LimbBase) % LimbBase>>

NatLess(a, b) ==
    IF a[1] # b[1] THEN a[1] < b[1]
    ELSE IF a[2] # b[2] THEN a[2] < b[2]
    ELSE a[3] < b[3]

NatOdd(a) == a[3] % 2 = 1

NatDouble(a) == NatAdd(a, a)

NatHalf(a) ==
    <<a[1] \div 2,
      a[2] \div 2 + (a[1] % 2) * (LimbBase \div 2),
      a[3] \div 2 + (a[2] % 2) * (LimbBase \div 2)>>

\* a * n for 0 <= n < 2^9 and a < 2^53
NatMul(a, n) ==
    LET l == a[3] * n
        m == a[2] * n + l \div LimbBase
    IN  <<a[1] * n + m \div LimbBase, m % LimbBase, l % LimbBase>>

RECURSIVE IntBitLen(_)
IntBitLen(n) == IF n = 0 THEN 0 ELSE 1 + IntBitLen(n \div 2)

NatBitLen(a) ==
    IF a[1] # 0 THEN 2 * LimbBits + IntBitLen(a[1])
    ELSE IF a[2] # 0 THEN LimbBits + IntBitLen(a[2])
    ELSE IntBitLen(a[3])

\* a * 2^k
RECURSIVE NatShiftLeft(_, _)
NatShiftLeft(a, k) ==
    IF k = 0 \/ a = NatZero THEN a ELSE NatShiftLeft(NatDouble(a), k - 1)

\* a \div 2^k
RECURSIVE NatShiftRight(_, _)
NatShiftRight(a, k) ==
    IF k = 0 \/ a = NatZero THEN a
    ELSE IF k >= LimbBits THEN NatShiftRight(<<0, a[1], a[2]>>, k - LimbBits)
    ELSE NatShiftRight(NatHalf(a), k - 1)

\* m * 2^e, inexact low bits already dropped when sticky, rounded to a
\* double: to the nearest, ties to the even mantissa
RECURSIVE FloatRound(_, _, _)
FloatRound(m, e, sticky) ==
    IF NatBitLen(m) > MantissaBits + 1
    THEN FloatRound(NatHalf(m), e + 1, sticky \/ NatOdd(m))
    ELSE IF NatBitLen(m) = MantissaBits + 1
    THEN LET h == NatHalf(m)
             up == NatOdd(m) /\ (sticky \/ NatOdd(h))
             r == IF up THEN NatAdd(h, NatFromInt(1)) ELSE h
         IN  IF NatBitLen(r) > MantissaBits
             THEN [m |-> NatHalf(r), e |-> e + 2]
             ELSE [m |-> r, e |-> e + 1]
    ELSE [m |-> m, e |-> e]

FloatFromInt(n) == [m |-> NatFromInt(n), e |-> 0]

\* x + y, for exponents less than ten apart
FloatAdd(x, y) ==
    LET e == IF x.e <= y.e THEN x.e ELSE y.e
    IN  FloatRound(NatAdd(NatShiftLeft(x.m, x.e - e), NatShiftLeft(y.m, y.e - e)), e, FALSE)

\* Long division of r * 2^k by d for r < d: <<quotient, remainder>>, the
\* quotient below 2^k
RECURSIVE DivBits(_, _, _, _)
DivBits(r, d, q, k) ==
    IF k = 0 THEN <<q, r>>
    ELSE LET r2 == NatDouble(r)
         IN  IF NatLess(r2, d)
             THEN DivBits(r2, d, 2 * q, k - 1)
             ELSE DivBits(NatSub(r2, d), d, 2 * q + 1, k - 1)

\* Long division of r * 2^63 by d for r < d, limb by limb:
\* <<quotient, remainder>>
DivLimbs(r, d) ==
    LET high == DivBits(r, d, 0, LimbBits)
        middle == DivBits(high[2], d, 0, LimbBits)
        low == DivBits(middle[2], d, 0, LimbBits)
    IN  <<<<high[1], middle[1], low[1]>>, low[2]>>

\* x / y for x, y > 0: the operands are scaled to the same bit length and
\* the divisor doubled, so that the dividend is below it and at least its
\* half
FloatDiv(x, y) ==
    LET lx == NatBitLen(x.m)
        ly == NatBitLen(y.m)
        sx == IF ly > lx THEN ly - lx ELSE 0
        sy == (IF lx > ly THEN lx - ly ELSE 0) + 1
        qr == DivLimbs(NatShiftLeft(x.m, sx), NatShiftLeft(y.m, sy))
    IN  FloatRound(qr[1], (x.e - sx) - (y.e - sy) - 3 * LimbBits, qr[2] # NatZero)

\* x * n for an integer 0 <= n < 2^9
FloatMulInt(x, n) == FloatRound(NatMul(x.m, n), x.e, FALSE)

\* int(x) for 0 <= x < 2^31
FloatToInt(x) ==
    IF x.e >= 0 THEN NatToInt(NatShiftLeft(x.m, x.e))
    ELSE NatToInt(NatShiftRight(x.m, 0 - x.e))

\* The days rounded up instead of truncated
days_since_ceil(dt) == (now - dt + TicksPerDay - 1) \div TicksPerDay

\* (utcnow() - dt).days
days_since(dt) == (now - dt) \div TicksPerDay

\* ------------------------------------------------------ mastery update
\* A flat reward, whatever the score
CorrectScoreFlat(s) == Min(Scale, s + MASTERY_CORRECT_INCREMENT)

\* min(1.0, score + INCREMENT * (1.0 - score))
CorrectScore(s) ==
    Min(Scale, RoundHalfEven(s * Scale + MASTERY_CORRECT_INCREMENT * (Scale - s), Scale))

\* The penalty of the size of the reward's rate
IncorrectScoreTenth(s) == Max(0, s - MASTERY_CORRECT_INCREMENT)

\* The penalty without its floor at 0.0
IncorrectScoreUnclamped(s) == s - MASTERY_INCORRECT_DECREMENT

\* max(0.0, score - DECREMENT)
IncorrectScore(s) == Max(0, s - MASTERY_INCORRECT_DECREMENT)

NewScore(s, correct) == IF correct THEN CorrectScore(s) ELSE IncorrectScore(s)

\* db.query(Mastery).filter(user_id == u, topic_id == t).first():
\* the index of the first matching row, 0 when there is none
FindMastery(tbl, u, t) ==
    LET hits == {i \in 1..Len(tbl) : tbl[i].user_id = u /\ tbl[i].topic_id = t}
    IN  IF hits = {} THEN 0 ELSE CHOOSE i \in hits : \A j \in hits : i <= j

\* A record created as if it had been reviewed at time 0
NewMasteryReviewed(u, t) ==
    [user_id |-> u, topic_id |-> t, mastery_score |-> MASTERY_INITIAL_SCORE,
     review_count |-> 0, last_reviewed_at |-> 0]

NewMastery(u, t) ==
    [user_id |-> u, topic_id |-> t, mastery_score |-> MASTERY_INITIAL_SCORE,
     review_count |-> 0, last_reviewed_at |-> Never]

\* The INSERT of a new row passes the foreign keys users.id and topics.id
InsertAllowed(u, t) == u \in Users /\ t \in Topics

\* A get_or_create_mastery that inserts without looking
TableAfterInsert(tbl, u, t) == Append(tbl, NewMastery(u, t))

\* The table after get_or_create_mastery(u, t)
TableAfterGetOrCreate(tbl, u, t) ==
    IF FindMastery(tbl, u, t) # 0 THEN tbl ELSE Append(tbl, NewMastery(u, t))

\* ------------------------------------------------ review priority tag
\* The tag with the thresholds included: days >= 2 and score <= 0.85
calculate_review_priority_inclusive(m) ==
    LET days == IF m.last_reviewed_at # Never
                THEN days_since(m.last_reviewed_at)
                ELSE NEVER_REVIEWED_DAYS
    IN  IF m.mastery_score < WEAK_SCORE /\ days >= WEAK_REVIEW_DAYS
        THEN "HIGH"
        ELSE IF m.mastery_score > STRONG_SCORE
        THEN "LOW"
        ELSE "MEDIUM"

\* StudyPlanner.calculate_review_priority
calculate_review_priority(m) ==
    LET days == IF m.last_reviewed_at # Never
                THEN days_since(m.last_reviewed_at)
                ELSE NEVER_REVIEWED_DAYS
    IN  IF m.mastery_score < WEAK_SCORE /\ days > WEAK_REVIEW_DAYS
        THEN "HIGH"
        ELSE IF /\ WEAK_SCORE <= m.mastery_score
                /\ m.mastery_score < STRONG_SCORE
                /\ days > MEDIUM_REVIEW_DAYS
        THEN "MEDIUM"
        ELSE IF m.mastery_score >= STRONG_SCORE
        THEN "LOW"
        ELSE "MEDIUM"

\* ------------------------------------------------- weak-topic ranking
RECENCY_POINTS_PER_DAY == 5
RECENCY_POINTS_CAP == 50
MASTERY_POINTS == 100

\* A ranking priority whose recency bonus has no cap
priority_score_uncapped(m) ==
    (Scale - m.mastery_score) * MASTERY_POINTS
    + Scale * (IF m.last_reviewed_at # Never
               THEN days_since(m.last_reviewed_at) * RECENCY_POINTS_PER_DAY
               ELSE RECENCY_POINTS_CAP)

\* priority_score of get_weak_topics_for_review, in units of 1/Scale
priority_score(m) ==
    (Scale - m.mastery_score) * MASTERY_POINTS
    + Scale * (IF m.last_reviewed_at # Never
               THEN Min(days_since(m.last_reviewed_at) * RECENCY_POINTS_PER_DAY,
                        RECENCY_POINTS_CAP)
               ELSE RECENCY_POINTS_CAP)

\* db.query(Mastery).filter(Mastery.user_id == u).all()
UserMasteries(tbl, u) == SelectSeq(tbl, LAMBDA m : m.user_id = u)

\* x put into a list already sorted by descending priority_score, behind
\* every element whose score is not lower: list.sort(key, reverse=True)
\* keeps elements of equal key in their input order
RECURSIVE InsertByPriority(_, _)
InsertByPriority(sorted, x) ==
    IF sorted = << >> THEN <<x>>
    ELSE IF priority_score(Head(sorted)) >= priority_score(x)
    THEN <<Head(sorted)>> \o InsertByPriority(Tail(sorted), x)
    ELSE <<x>> \o sorted

RECURSIVE SortByPriority(_)
SortByPriority(ms) ==
    IF ms = << >> THEN << >>
    ELSE InsertByPriority(SortByPriority(SubSeq(ms, 1, Len(ms) - 1)), ms[Len(ms)])

\* scored_masteries[:limit]
Take(s, n) == SubSeq(s, 1, Min(n, Len(s)))

\* A list comprehension: the list of the values f[1], ..., f[n]
List(f) == SubSeq(f, 1, Len(f))

get_weak_topics_for_review(tbl, u, limit) == Take(SortByPriority(UserMasteries(tbl, u)), limit)

\* ------------------------------------------------- focus-topic selection
\* db.query(Topic).filter(Topic.id.in_(topic_ids)).all(): the topics whose
\* id is among ids, each once; the query states no ORDER BY, so the rows
\* come in an order the database chooses
TopicsIn(ids) ==
    LET found == Range(topics) \cap Range(ids)
    IN  {ts \in [1..Cardinality(found) -> found] :
            \A i, j \in 1..Cardinality(found) : ts[i] = ts[j] => i = j}

\* A focus lookup that also counts a review on each record it returns
RECURSIVE TableAfterFocusReviewed(_, _, _)
TableAfterFocusReviewed(tbl, u, ts) ==
    IF ts = << >> THEN tbl
    ELSE LET next == TableAfterGetOrCreate(tbl, u, Head(ts))
             i == FindMastery(next, u, Head(ts))
         IN  TableAfterFocusReviewed(
                 IF i = 0 THEN next ELSE [next EXCEPT ![i].review_count = @ + 1],
                 u, Tail(ts))

\* The masteries table after get_or_create_mastery for each topic of ts
RECURSIVE TableAfterFocus(_, _, _)
TableAfterFocus(tbl, u, ts) ==
    IF ts = << >> THEN tbl
    ELSE TableAfterFocus(TableAfterGetOrCreate(tbl, u, Head(ts)), u, Tail(ts))

\* StudyPlanner._get_specific_topics: the (topic, mastery, priority) tuples
\* for the topic rows ts the query returned
get_specific_topics(tbl, u, ts) ==
    LET after == TableAfterFocus(tbl, u, ts)
    IN  List([k \in 1..Len(ts) |->
                 LET m == after[FindMastery(after, u, ts[k])]
                 IN  [topic |-> ts[k], mastery |-> m,
                      priority |-> calculate_review_priority(m)]])

\* ------------------------------------------------------ study planner
WEAK_TOPICS_LIMIT == 10
MINUTES_PER_TOPIC == 35
MIN_TOPICS == 3
MIN_BLOCK_MINUTES == 20
MIN_QUESTIONS == 3
MINUTES_PER_QUESTION == 2
FOCUS_AREAS == 3
VERY_WEAK_SCORE == 300
LOW_MASTERY_SCORE == 500
MASTERY_WEAK_THRESHOLD == 700
SPACED_REPETITION_THRESHOLD_DAYS == 2

\* Topic.name of the topic with id t
TopicName(t) == <<"name", t>>

\* A selection that keeps every ranked record, whatever the duration
select_topics_uncapped(tbl, u, duration_minutes) ==
    LET weak == get_weak_topics_for_review(tbl, u, WEAK_TOPICS_LIMIT)
        found == SelectSeq(weak, LAMBDA m : m.topic_id \in Topics)
    IN  List([k \in 1..Len(found) |->
                 [topic |-> found[k].topic_id, mastery |-> found[k],
                  priority |-> calculate_review_priority(found[k])]])

\* StudyPlanner._select_topics_for_study: the ranked records whose topic
\* exists, with their tags, cut to max(3, duration_minutes // 35)
select_topics_for_study(tbl, u, duration_minutes) ==
    LET weak == get_weak_topics_for_review(tbl, u, WEAK_TOPICS_LIMIT)
        found == SelectSeq(weak, LAMBDA m : m.topic_id \in Topics)
        selected == [k \in 1..Len(found) |->
                        [topic |-> found[k].topic_id, mastery |-> found[k],
                         priority |-> calculate_review_priority(found[k])]]
    IN  Take(selected, Max(MIN_TOPICS, duration_minutes \div MINUTES_PER_TOPIC))

\* The float literals 1.5, 1.0 and 0.7 of priority_weights
WEIGHT_HIGH == FloatDiv(FloatFromInt(15), FloatFromInt(10))
WEIGHT_MEDIUM == FloatDiv(FloatFromInt(10), FloatFromInt(10))
WEIGHT_LOW == FloatDiv(FloatFromInt(7), FloatFromInt(10))

priority_weights(priority) ==
    IF priority = "HIGH" THEN WEIGHT_HIGH
    ELSE IF priority = "MEDIUM" THEN WEIGHT_MEDIUM
    ELSE WEIGHT_LOW

\* sum(weights) adding one float after the other, each sum rounded
RECURSIVE SumSequential(_)
SumSequential(ws) ==
    IF Len(ws) = 1 THEN ws[1]
    ELSE FloatAdd(SumSequential(SubSeq(ws, 1, Len(ws) - 1)), ws[Len(ws)])

\* The exact sum of the mantissas of ws scaled to the exponent e
RECURSIVE SumMantissas(_, _)
SumMantissas(ws, e) ==
    IF ws = << >> THEN NatZero
    ELSE NatAdd(NatShiftLeft(Head(ws).m, Head(ws).e - e), SumMantissas(Tail(ws), e))

RECURSIVE MinExponent(_)
MinExponent(ws) ==
    IF Len(ws) = 1 THEN ws[1].e ELSE Min(Head(ws).e, MinExponent(Tail(ws)))

\* sum(weights) with compensated summation: the exact sum, rounded once
SumCompensated(ws) == FloatRound(SumMantissas(ws, MinExponent(ws)), MinExponent(ws), FALSE)

\* An allocation loop that also lifts the last candidate to the minimum
RECURSIVE AllocateFromAllFloored(_, _, _, _, _)
AllocateFromAllFloored(weights, total_weight, total_minutes, i, remaining) ==
    IF i = Len(weights) THEN <<Max(MIN_BLOCK_MINUTES, remaining)>>
    ELSE LET allocated ==
                 Max(MIN_BLOCK_MINUTES,
                     FloatToInt(FloatMulInt(FloatDiv(weights[i], total_weight), total_minutes)))
         IN  <<allocated>>
             \o AllocateFromAllFloored(weights, total_weight, total_minutes, i + 1,
                                       remaining - allocated)

\* The allocations of the candidates i.. of _allocate_time's loop
RECURSIVE AllocateFrom(_, _, _, _, _)
AllocateFrom(weights, total_weight, total_minutes, i, remaining) ==
    IF i = Len(weights) THEN <<remaining>>
    ELSE LET allocated ==
                 Max(MIN_BLOCK_MINUTES,
                     FloatToInt(FloatMulInt(FloatDiv(weights[i], total_weight), total_minutes)))
         IN  <<allocated>>
             \o AllocateFrom(weights, total_weight, total_minutes, i + 1, remaining - allocated)

\* StudyPlanner._allocate_time on the priority tags of the candidates
allocate_time(priorities, total_minutes, compensated) ==
    IF priorities = << >> THEN << >>
    ELSE LET weights == List([i \in 1..Len(priorities) |-> priority_weights(priorities[i])])
             total_weight == IF compensated THEN SumCompensated(weights)
                             ELSE SumSequential(weights)
         IN  AllocateFrom(weights, total_weight, total_minutes, 1, total_minutes)

\* The float literals 0.6, 0.5 and 0.4 of _create_study_block
REVIEW_SHARE_VERY_WEAK == FloatDiv(FloatFromInt(6), FloatFromInt(10))
REVIEW_SHARE_WEAK == FloatDiv(FloatFromInt(5), FloatFromInt(10))
REVIEW_SHARE_STRONG == FloatDiv(FloatFromInt(4), FloatFromInt(10))

\* int(minutes * share): the float product, truncated toward zero
IntOfProduct(minutes, share) ==
    IF minutes >= 0 THEN FloatToInt(FloatMulInt(share, minutes))
    ELSE 0 - FloatToInt(FloatMulInt(share, 0 - minutes))

\* round(score, 3), in units of 1/1000
Round3(score) == RoundHalfEven(score * 1000, Scale)

\* StudyPlanner._get_recommendation_reason: the reasons joined by " | "
get_recommendation_reason(m) ==
    LET mastery_reason ==
            IF m.mastery_score < LOW_MASTERY_SCORE
            THEN <<"Low mastery - needs foundational review">>
            ELSE IF m.mastery_score < MASTERY_WEAK_THRESHOLD
            THEN <<"Below target mastery">>
            ELSE << >>
        review_reason ==
            IF m.last_reviewed_at # Never
            THEN IF days_since(m.last_reviewed_at) > SPACED_REPETITION_THRESHOLD_DAYS
                 THEN <<<<"Not reviewed for days - spaced repetition",
                          days_since(m.last_reviewed_at)>>>>
                 ELSE << >>
            ELSE <<"Never reviewed - new topic">>
    IN  IF mastery_reason \o review_reason = << >>
        THEN <<"Recommended for review">>
        ELSE mastery_reason \o review_reason

\* StudyPlanner._create_study_block
create_study_block(topic, m, allocated_minutes, priority) ==
    LET review_minutes ==
            IF m.mastery_score < VERY_WEAK_SCORE
            THEN IntOfProduct(allocated_minutes, REVIEW_SHARE_VERY_WEAK)
            ELSE IF m.mastery_score < MASTERY_WEAK_THRESHOLD
            THEN IntOfProduct(allocated_minutes, REVIEW_SHARE_WEAK)
            ELSE IntOfProduct(allocated_minutes, REVIEW_SHARE_STRONG)
        quiz_minutes == allocated_minutes - review_minutes
    IN  [topic_id |-> topic,
         topic |-> TopicName(topic),
         duration_minutes |-> allocated_minutes,
         review_material |-> [text |-> "Review for minutes", topic |-> TopicName(topic),
                              minutes |-> review_minutes],
         quiz_questions |-> << >>,
         quiz_question_count |-> Max(MIN_QUESTIONS, quiz_minutes \div MINUTES_PER_QUESTION),
         current_mastery |-> Round3(m.mastery_score),
         reason |-> get_recommendation_reason(m),
         priority |-> priority]

\* A sum of the snapshots of the first three blocks only
RECURSIVE SumOfMasteryFocus(_)
SumOfMasteryFocus(blocks) ==
    IF blocks = << >> THEN 0
    ELSE IF Len(blocks) > FOCUS_AREAS THEN SumOfMasteryFocus(Take(blocks, FOCUS_AREAS))
    ELSE Head(blocks).current_mastery + SumOfMasteryFocus(Tail(blocks))

RECURSIVE SumOfMastery(_)
SumOfMastery(blocks) ==
    IF blocks = << >> THEN 0
    ELSE Head(blocks).current_mastery + SumOfMastery(Tail(blocks))

\* An empty plan that says nothing of its cause
create_empty_plan_silent(u, duration_minutes, at) ==
    [user_id |-> u,
     duration_minutes |-> duration_minutes,
     generated_at |-> at,
     blocks |-> << >>,
     total_topics |-> 0,
     focus_areas |-> << >>,
     average_current_mastery |-> [sum |-> 0, count |-> 1]]

\* StudyPlanner._create_empty_plan
create_empty_plan(u, duration_minutes, at) ==
    [user_id |-> u,
     duration_minutes |-> duration_minutes,
     generated_at |-> at,
     blocks |-> << >>,
     total_topics |-> 0,
     focus_areas |-> << >>,
     average_current_mastery |-> [sum |-> 0, count |-> 1],
     message |-> "No topics available for study. Start by uploading content or taking quizzes."]

\* Step 2 of StudyPlanner.generate_study_plan: the minutes of the
\* candidates
time_allocation_for(candidates, duration_minutes, compensated) ==
    allocate_time(List([k \in 1..Len(candidates) |-> candidates[k].priority]),
                  duration_minutes, compensated)

\* Step 3 of StudyPlanner.generate_study_plan: one block per candidate
study_blocks_for(candidates, time_allocation) ==
    List([k \in 1..Len(candidates) |->
             create_study_block(candidates[k].topic, candidates[k].mastery,
                                time_allocation[k], candidates[k].priority)])

\* Step 4 of StudyPlanner.generate_study_plan: the plan of the blocks, or
\* the empty plan when selection gave no candidates.  The average mastery
\* is the quotient sum / count of a float division.
plan_for(u, duration_minutes, candidates, study_blocks, at) ==
    IF candidates = << >> THEN create_empty_plan(u, duration_minutes, at)
    ELSE [user_id |-> u,
          duration_minutes |-> duration_minutes,
          generated_at |-> at,
          blocks |-> study_blocks,
          total_topics |-> Len(study_blocks),
          focus_areas |-> List([k \in 1..Min(FOCUS_AREAS, Len(study_blocks)) |->
                                   study_blocks[k].topic]),
          average_current_mastery |->
              [sum |-> SumOfMastery(study_blocks), count |-> Len(study_blocks)]]

\* ---------------------------------------------------- plan enrichment
MAX_QUIZ_COUNT == 20

\* The review text of a block: the topic summary, or the placeholder when
\* ContentService.get_topic_summary raised
review_material(block, failed) ==
    IF failed THEN <<"Study materials for", block.topic>>
    ELSE <<"summary", block.topic_id>>

\* The questions of a block, each shown by its topic: none when no quiz is
\* asked for, when QuizGenerateRequest rejects the count or when
\* generate_or_fetch_questions raised
quiz_questions(block, include_quiz, failed) ==
    IF include_quiz /\ block.quiz_question_count > 0
       /\ block.quiz_question_count <= MAX_QUIZ_COUNT /\ ~failed
    THEN List([k \in 1..block.quiz_question_count |-> block.topic_id])
    ELSE << >>

\* An enrichment in which a call that raised spoils every block
enriched_block_shared_failure(block, k, include_quiz, failures) ==
    [topic_id |-> block.topic_id,
     topic |-> block.topic,
     duration_minutes |-> block.duration_minutes,
     review_material |->
         review_material(block, \E f \in failures : f[2] = "summary"),
     quiz_questions |->
         quiz_questions(block, include_quiz, \E f \in failures : f[2] = "quiz"),
     current_mastery |-> block.current_mastery,
     reason |-> block.reason,
     priority |-> block.priority]

\* The StudyBlock of a planner block; failures holds the (block, call)
\* pairs whose enrichment call raised
enriched_block(block, k, include_quiz, failures) ==
    [topic_id |-> block.topic_id,
     topic |-> block.topic,
     duration_minutes |-> block.duration_minutes,
     review_material |-> review_material(block, <<k, "summary">> \in failures),
     quiz_questions |-> quiz_questions(block, include_quiz, <<k, "quiz">> \in failures),
     current_mastery |-> block.current_mastery,
     reason |-> block.reason,
     priority |-> block.priority]

RECURSIVE TotalQuestions(_)
TotalQuestions(blocks) ==
    IF blocks = << >> THEN 0
    ELSE Len(Head(blocks).quiz_questions) + TotalQuestions(Tail(blocks))

\* The StudyPlanResponse built from the planner's plan
study_plan_response(plan, include_quiz, failures) ==
    LET enriched_blocks ==
            List([k \in 1..Len(plan.blocks) |->
                     enriched_block(plan.blocks[k], k, include_quiz, failures)])
    IN  [user_id |-> plan.user_id,
         duration_minutes |-> plan.duration_minutes,
         generated_at |-> plan.generated_at,
         blocks |-> enriched_blocks,
         total_topics |-> plan.total_topics,
         total_questions |-> TotalQuestions(enriched_blocks),
         average_current_mastery |->
             RoundHalfEven(plan.average_current_mastery.sum,
                           plan.average_current_mastery.count),
         focus_areas |-> plan.focus_areas]

\* A handler that lets the failure of the log write reach the caller
plan_outcome_log_raises(response, logged) ==
    IF logged THEN [ok |-> TRUE, value |-> response]
    ELSE [ok |-> FALSE, error |-> "InternalError"]

\* What generate_study_plan gives its caller after _log_study_plan, which
\* catches every exception of the log write
plan_outcome(response, logged) == [ok |-> TRUE, value |-> response]

\* The rows of quiz_questions: one question on every topic, answer "A"
Questions == [q \in 1..Len(topics) |-> [topic_id |-> topics[q], correct_option |-> "A"]]

\* Lookups that take any user id
answer_accepted_any_user(u, q) == q \in DOMAIN Questions

\* The lookups of submit_answer, the user and then the question, both find
\* a row
answer_accepted(u, q) == u \in Users /\ q \in DOMAIN Questions

\* A grading that takes every answer for right
is_correct_always(chosen_option, question) == TRUE

\* correct = answer_data.chosen_option == question.correct_option
is_correct(chosen_option, question) == chosen_option = question.correct_option

QuestionIds == 1..(Len(topics) + 1)
Options == {"A", "B"}

MaxFocus == 2
FocusLists == UNION {[1..n -> TopicIds] : n \in 1..MaxFocus}

RECURSIVE SumOver(_, _)
SumOver(f, keys) ==
    IF keys = {} THEN 0
    ELSE LET k == CHOOSE x \in keys : TRUE IN f[k] + SumOver(f, keys \ {k})

\* update_mastery_from_quiz calls made so far
TotalUpdates == SumOver(updates, DOMAIN updates)

NoUpdates == [k \in Users \X Topics |-> 0]

\* One database session per request being served; none is in flight
NumSessions == 2
Sessions == 1..NumSessions
NoSessions == [p \in Sessions |-> [pc |-> "idle", requests |-> 0]]

Init ==
    /\ compensated_sum = FALSE
    /\ otp_storage = NoOtp
    /\ plan_logs = << >>
    /\ quiz_answers = << >>
    /\ sessions = NoSessions
    /\ users = 1..NumUsers
    /\ topics = [i \in 1..NumTopics |-> i]
    /\ now = 0
    /\ masteries = << >>
    /\ ret = [op |-> "init"]
    /\ updates = NoUpdates

\* Time passes
Tick ==
    /\ now' = now + 1
    /\ ret' = [op |-> "tick"]
    /\ UNCHANGED <<service_vars, sessions, users, topics, masteries, updates>>

\* MasteryService.get_or_create_mastery(u, t)
GetOrCreateMastery(u, t) ==
    /\ IF FindMastery(masteries, u, t) = 0 /\ ~InsertAllowed(u, t)
       THEN /\ ret' = [op |-> "get_or_create", user |-> u, topic |-> t, ok |-> FALSE,
                       error |-> "IntegrityError"]
            /\ UNCHANGED masteries
       ELSE /\ masteries' = TableAfterGetOrCreate(masteries, u, t)
            /\ ret' = [op |-> "get_or_create", user |-> u, topic |-> t, ok |-> TRUE,
                       created |-> (FindMastery(masteries, u, t) = 0),
                       value |-> masteries'[FindMastery(masteries', u, t)]]
    /\ UNCHANGED <<service_vars, sessions, users, topics, now, updates>>

\* An update that counts correct answers only
UpdatedMasteryCorrectOnly(m, correct) ==
    [m EXCEPT !.mastery_score = NewScore(m.mastery_score, correct),
              !.last_reviewed_at = now,
              !.review_count = IF correct THEN m.review_count + 1 ELSE m.review_count]

\* The row after the update rule of update_mastery_from_quiz
UpdatedMastery(m, correct) ==
    [m EXCEPT !.mastery_score = NewScore(m.mastery_score, correct),
              !.last_reviewed_at = now,
              !.review_count = m.review_count + 1]

\* MasteryService.update_mastery_from_quiz(u, t, correct), called by
\* QuizService.submit_answer with an existing user and the question's topic
UpdateMasteryFromQuiz(u, t, correct) ==
    LET tbl == TableAfterGetOrCreate(masteries, u, t)
        i == FindMastery(tbl, u, t)
    IN  /\ updates' = [updates EXCEPT ![<<u, t>>] = @ + 1]
        /\ masteries' = [tbl EXCEPT ![i] = UpdatedMastery(tbl[i], correct)]
        /\ ret' = [op |-> "update", user |-> u, topic |-> t, ok |-> TRUE,
                   correct |-> correct, old |-> tbl[i], value |-> masteries'[i]]
        /\ UNCHANGED <<service_vars, sessions, users, topics, now>>

\* MasteryService.get_topic_mastery_detail(u, t): the record is fetched or
\* created before the topic is looked up
GetTopicMasteryDetail(u, t) ==
    /\ IF FindMastery(masteries, u, t) = 0 /\ ~InsertAllowed(u, t)
       THEN /\ ret' = [op |-> "detail", user |-> u, topic |-> t, ok |-> FALSE,
                       error |-> "IntegrityError"]
            /\ UNCHANGED masteries
       ELSE /\ masteries' = TableAfterGetOrCreate(masteries, u, t)
            /\ ret' = IF t \in Topics
                      THEN [op |-> "detail", user |-> u, topic |-> t, ok |-> TRUE,
                            value |-> masteries'[FindMastery(masteries', u, t)]]
                      ELSE [op |-> "detail", user |-> u, topic |-> t, ok |-> FALSE,
                            error |-> "NotFound"]
    /\ UNCHANGED <<service_vars, sessions, users, topics, now, updates>>

\* MasteryService.get_weak_topics_for_review(u, limit)
GetWeakTopicsForReview(u, limit) ==
    /\ ret' = [op |-> "weak_topics", user |-> u, limit |-> limit, ok |-> TRUE,
               input |-> UserMasteries(masteries, u),
               value |-> get_weak_topics_for_review(masteries, u, limit)]
    /\ UNCHANGED <<service_vars, sessions, users, topics, now, masteries, updates>>

\* StudyPlanner._get_specific_topics(u, ids): the candidates of a plan with
\* focus topics
GetSpecificTopics(u, ids) ==
    /\ \E ts \in TopicsIn(ids) :
          /\ masteries' = TableAfterFocus(masteries, u, ts)
          /\ ret' = [op |-> "focus", user |-> u, ids |-> ids, ok |-> TRUE,
                     before |-> masteries,
                     value |-> get_specific_topics(masteries, u, ts)]
    /\ UNCHANGED <<service_vars, sessions, users, topics, now, updates>>

\* StudyPlanner.calculate_review_priority on the record of (u, t)
CalculateReviewPriority(u, t) ==
    /\ FindMastery(masteries, u, t) # 0
    /\ ret' = [op |-> "priority", user |-> u, topic |-> t, ok |-> TRUE,
               mastery |-> masteries[FindMastery(masteries, u, t)],
               value |-> calculate_review_priority(masteries[FindMastery(masteries, u, t)])]
    /\ UNCHANGED <<service_vars, sessions, users, topics, now, masteries, updates>>

Next ==
    \/ now < MaxTime /\ Tick
    \/ \E u \in Users, t \in Topics : GetOrCreateMastery(u, t)
    \/ \E u \in Users, t \in Topics, c \in BOOLEAN :
          TotalUpdates < MaxReviews /\ UpdateMasteryFromQuiz(u, t, c)
    \/ \E u \in UserIds, t \in TopicIds : GetTopicMasteryDetail(u, t)
    \/ \E u \in Users, limit \in 0..MaxLimit : GetWeakTopicsForReview(u, limit)
    \/ \E u \in Users, ids \in FocusLists : GetSpecificTopics(u, ids)

Spec == Init /\ [][Next]_vars

\* --------------------------------------------------------------------
\* SpecUpdate: the update rule on every score.  The store starts with one
\* record of user 1 and topic 1 holding any score of [0.0, 1.0], reviewed
\* SeedReviews times, the last time at time 0.  (From a new record every
\* score of 0..Scale-4 is reached by at most 50 updates, and by any larger
\* number of them, since an incorrect answer leaves the score 0.0 at 0.0.)
SeedReviews == 50

SeedMastery(u, t, s, last) ==
    [user_id |-> u, topic_id |-> t, mastery_score |-> s,
     review_count |-> SeedReviews, last_reviewed_at |-> last]

InitUpdate ==
    /\ compensated_sum = FALSE
    /\ otp_storage = NoOtp
    /\ plan_logs = << >>
    /\ quiz_answers = << >>
    /\ sessions = NoSessions
    /\ users = 1..NumUsers
    /\ topics = [i \in 1..NumTopics |-> i]
    /\ now = 0
    /\ \E s \in 0..Scale : masteries = <<SeedMastery(1, 1, s, 0)>>
    /\ ret = [op |-> "init"]
    /\ updates = NoUpdates

NextUpdate ==
    \/ \E u \in Users, t \in Topics : GetOrCreateMastery(u, t)
    \/ \E u \in Users, t \in Topics, c \in BOOLEAN :
          TotalUpdates < MaxReviews /\ UpdateMasteryFromQuiz(u, t, c)

SpecUpdate == InitUpdate /\ [][NextUpdate]_vars

\* --------------------------------------------------------------------
\* SpecPriority: the priority tag of one record over time.  The record of
\* user 1 and topic 1 is new, or was last reviewed at time 0 and holds one
\* of the scores ScoreSamples (each is reached from a new record); time
\* passes for MaxDays days, the record is updated at most
\* MaxPriorityUpdates times, and its tag is read at any time.
MaxDays == 8
MaxPriorityUpdates == 2
ScoreSamples == {0, 299, 300, 650, 699, 700, 701, 849, 850, 851, 996}

InitPriority ==
    /\ compensated_sum = FALSE
    /\ otp_storage = NoOtp
    /\ plan_logs = << >>
    /\ quiz_answers = << >>
    /\ sessions = NoSessions
    /\ users = 1..NumUsers
    /\ topics = [i \in 1..NumTopics |-> i]
    /\ now = 0
    /\ \/ masteries = <<NewMastery(1, 1)>>
       \/ \E s \in ScoreSamples : masteries = <<SeedMastery(1, 1, s, 0)>>
    /\ ret = [op |-> "init"]
    /\ updates = NoUpdates

NextPriority ==
    \/ now < MaxDays * TicksPerDay + 1 /\ Tick
    \/ \E c \in BOOLEAN :
          TotalUpdates < MaxPriorityUpdates /\ UpdateMasteryFromQuiz(1, 1, c)
    \/ CalculateReviewPriority(1, 1)

SpecPriority == InitPriority /\ [][NextPriority]_vars

\* --------------------------------------------------------------------
\* SpecConc: quiz submissions served at the same time, each in a database
\* session of its own (several server workers).  A session runs
\* update_mastery_from_quiz in the steps in which it reaches the database:
\* the query of get_or_create_mastery, the insert and commit of a new
\* record, and the commit of the updated record.  Nothing orders the steps
\* of two sessions.
MaxRequests == 2

\* get_or_create_mastery's query: the session loads the record it finds
BeginUpdate(p, u, t, correct) ==
    /\ sessions[p].pc \in {"idle", "done", "failed"}
    /\ sessions[p].requests < MaxRequests
    /\ sessions' = [sessions EXCEPT ![p] =
          IF FindMastery(masteries, u, t) # 0
          THEN [pc |-> "loaded", requests |-> @.requests + 1, user |-> u, topic |-> t,
                correct |-> correct, row |-> masteries[FindMastery(masteries, u, t)]]
          ELSE [pc |-> "creating", requests |-> @.requests + 1, user |-> u, topic |-> t,
                correct |-> correct]]
    /\ ret' = [op |-> "begin"]
    /\ UNCHANGED <<service_vars, users, topics, now, masteries, updates>>

\* get_or_create_mastery's db.add and db.commit: the unique constraint on
\* (user_id, topic_id) rejects the insert when the record exists by now
CreateRow(p) ==
    LET s == sessions[p]
    IN  /\ s.pc = "creating"
        /\ IF FindMastery(masteries, s.user, s.topic) # 0
           THEN /\ sessions' = [sessions EXCEPT ![p].pc = "failed"]
                /\ ret' = [op |-> "update", user |-> s.user, topic |-> s.topic,
                           ok |-> FALSE, error |-> "IntegrityError"]
                /\ UNCHANGED masteries
           ELSE /\ sessions' = [sessions EXCEPT ![p] =
                      [pc |-> "loaded", requests |-> s.requests, user |-> s.user,
                       topic |-> s.topic, correct |-> s.correct,
                       row |-> NewMastery(s.user, s.topic)]]
                /\ ret' = [op |-> "create"]
                /\ masteries' = Append(masteries, NewMastery(s.user, s.topic))
        /\ UNCHANGED <<service_vars, users, topics, now, updates>>

\* The update rule on the loaded record and db.commit: the UPDATE writes
\* the values computed from the record as the session loaded it
CommitUpdate(p) ==
    LET s == sessions[p]
        i == FindMastery(masteries, s.user, s.topic)
    IN  /\ s.pc = "loaded"
        /\ sessions' = [sessions EXCEPT ![p].pc = "done"]
        /\ updates' = [updates EXCEPT ![<<s.user, s.topic>>] = @ + 1]
        /\ masteries' = [masteries EXCEPT ![i] = UpdatedMastery(s.row, s.correct)]
        /\ ret' = [op |-> "update", user |-> s.user, topic |-> s.topic, ok |-> TRUE,
                   correct |-> s.correct, old |-> s.row, value |-> masteries'[i]]
        /\ UNCHANGED <<service_vars, users, topics, now>>

NextConc ==
    \/ now < MaxTime /\ Tick
    \/ \E p \in Sessions, u \in Users, t \in Topics, c \in BOOLEAN : BeginUpdate(p, u, t, c)
    \/ \E p \in Sessions : CreateRow(p)
    \/ \E p \in Sessions : CommitUpdate(p)

SpecConc == Init /\ [][NextConc]_vars

\* --------------------------------------------------------------------
\* SpecRank: the weak-topic ranking on a drawn store.  There are RankUsers
\* users and RankTopics topics; the store holds RankRows records with
\* distinct keys, in any storage order, of user 1 and any topic or of user
\* 2 and topic 1.  A record is new, or holds a score and a last review
\* of RankContents.
RankUsers == 2
RankTopics == 3
RankRows == 3
MaxRankDay == 11
\* <<score, days since the last review>> of a reviewed record
RankContents == {<<0, 0>>, <<0, MaxRankDay - 1>>, <<0, MaxRankDay>>, <<50, 1>>, <<500, 0>>}
RankKeys == ({1} \X (1..RankTopics)) \cup {<<2, 1>>}

RankRecords(k) ==
    {NewMastery(k[1], k[2])} \cup
    {SeedMastery(k[1], k[2], sd[1], (MaxRankDay - sd[2]) * TicksPerDay) :
        sd \in RankContents}

InitRank ==
    /\ compensated_sum = FALSE
    /\ otp_storage = NoOtp
    /\ plan_logs = << >>
    /\ quiz_answers = << >>
    /\ sessions = NoSessions
    /\ users = 1..RankUsers
    /\ topics = [i \in 1..RankTopics |-> i]
    /\ now = MaxRankDay * TicksPerDay
    /\ \E keys \in [1..RankRows -> RankKeys] :
          /\ \A i, j \in 1..RankRows : keys[i] = keys[j] => i = j
          /\ \E tbl \in [1..RankRows -> UNION {RankRecords(k) : k \in RankKeys}] :
                /\ \A i \in 1..RankRows : tbl[i] \in RankRecords(keys[i])
                /\ masteries = tbl
    /\ ret = [op |-> "init"]
    /\ updates = NoUpdates

NextRank ==
    \E u \in Users, limit \in 0..RankRows : GetWeakTopicsForReview(u, limit)

SpecRank == InitRank /\ [][NextRank]_vars

\* ====================================================================
\* Properties of the sequential store machine (Spec)
\* ====================================================================

\* --------------------------------------------------------------------
\* SpecAllocate: StudyPlanner._allocate_time as a function of the priority
\* tags of up to MaxCandidates candidates and of the minutes to share, under
\* either summation of the interpreter.
MaxCandidates == 3
MinAllocMinutes == 20
MaxAllocMinutes == 125
PriorityTags == {"HIGH", "MEDIUM", "LOW"}
TagLists == UNION {[1..n -> PriorityTags] : n \in 1..MaxCandidates}

InitAllocate ==
    /\ compensated_sum \in BOOLEAN
    /\ otp_storage = NoOtp
    /\ plan_logs = << >>
    /\ quiz_answers = << >>
    /\ sessions = NoSessions
    /\ users = 1..NumUsers
    /\ topics = [i \in 1..NumTopics |-> i]
    /\ now = 0
    /\ masteries = << >>
    /\ \E ps \in TagLists, t \in MinAllocMinutes..MaxAllocMinutes :
          ret = [op |-> "input", priorities |-> ps, total_minutes |-> t]
    /\ updates = NoUpdates

\* StudyPlanner._allocate_time on the drawn candidates and minutes
AllocateTime ==
    /\ ret.op = "input"
    /\ ret' = [op |-> "allocate", priorities |-> ret.priorities,
               total_minutes |-> ret.total_minutes,
               value |-> allocate_time(ret.priorities, ret.total_minutes, compensated_sum)]
    /\ UNCHANGED <<service_vars, sessions, users, topics, now, masteries, updates>>

NextAllocate == AllocateTime

SpecAllocate == InitAllocate /\ [][NextAllocate]_vars


\* --------------------------------------------------------------------
\* SpecPlan: RecommenderService.generate_study_plan and
\* QuizService.submit_answer on a drawn store.  User 1 exists and user 2
\* does not; PlanTopics topics exist, each with one question; user 1 has
\* records for the first n topics, each new, or below 0.7 and reviewed now,
\* or above 0.85 and reviewed PlanNow ticks ago.  MaxServiceRequests
\* requests are served; at most MaxFailures enrichment calls of a request
\* raise.
PlanTopics == 4
PlanNow == 8
MaxServiceRequests == 1
MaxFailures == 1
PlanDurations == {30, 31, 120, 140, 300}
PlanFocus == {<< >>, <<2, 1>>, <<PlanTopics + 1>>}

PlanRecords(t) ==
    {NewMastery(1, t), SeedMastery(1, t, 650, PlanNow), SeedMastery(1, t, 900, 0)}

InitPlan ==
    /\ compensated_sum \in BOOLEAN
    /\ otp_storage = NoOtp
    /\ plan_logs = << >>
    /\ quiz_answers = << >>
    /\ sessions = NoSessions
    /\ users = 1..NumUsers
    /\ topics = [i \in 1..PlanTopics |-> i]
    /\ now = PlanNow
    /\ \E n \in 0..PlanTopics :
          \E rows \in [1..n -> UNION {PlanRecords(t) : t \in 1..PlanTopics}] :
              /\ \A t \in 1..n : rows[t].topic_id = t
              /\ masteries = rows
    /\ ret = [op |-> "init"]
    /\ updates = NoUpdates

ServedRequests == sessions[1].requests

\* The sets of enrichment calls of n blocks that raise
FailureSets(n) ==
    {f \in SUBSET ((1..n) \X {"summary", "quiz"}) : Cardinality(f) <= MaxFailures}

\* StudyPlanLog row of a response
plan_log(u, response) ==
    [user_id |-> u, plan_json |-> response,
     duration_minutes |-> response.duration_minutes, completed |-> 0, created_at |-> now]

\* RecommenderService.generate_study_plan(u, duration_minutes, focus_topics,
\* include_quiz); focus_topics None is the empty list, both take the
\* adaptive selection
GenerateStudyPlan(u, duration_minutes, focus_topics, include_quiz) ==
    /\ ServedRequests < MaxServiceRequests
    /\ sessions' = [sessions EXCEPT ![1].requests = @ + 1]
    /\ IF u \notin Users
       THEN /\ ret' = [op |-> "plan", user |-> u, ok |-> FALSE, error |-> "NotFound"]
            /\ UNCHANGED <<masteries, plan_logs>>
       ELSE \E ts \in TopicsIn(focus_topics) :
              \E candidates \in {IF focus_topics # << >>
                                  THEN get_specific_topics(masteries, u, ts)
                                  ELSE select_topics_for_study(masteries, u, duration_minutes)} :
              \E time_allocation \in {time_allocation_for(candidates, duration_minutes,
                                                           compensated_sum)} :
              \E study_blocks \in {study_blocks_for(candidates, time_allocation)} :
              \E plan \in {plan_for(u, duration_minutes, candidates, study_blocks, now)} :
                  /\ masteries' = IF focus_topics # << >>
                                  THEN TableAfterFocus(masteries, u, ts)
                                  ELSE masteries
                  /\ \E failures \in FailureSets(Len(plan.blocks)), logged \in BOOLEAN :
                      \E response \in {study_plan_response(plan, include_quiz, failures)} :
                          /\ plan_logs' = IF logged
                                          THEN Append(plan_logs, plan_log(u, response))
                                          ELSE plan_logs
                          /\ ret' = [op |-> "plan", user |-> u,
                                     duration_minutes |-> duration_minutes,
                                     focus_topics |-> focus_topics,
                                     include_quiz |-> include_quiz,
                                     before |-> masteries,
                                     plan |-> plan,
                                     failures |-> failures,
                                     logged |-> logged] @@ plan_outcome(response, logged)
    /\ UNCHANGED <<compensated_sum, quiz_answers, users, topics, now, updates, otp_storage>>

\* QuizService.submit_answer(u, q, chosen_option)
SubmitAnswer(u, q, chosen_option) ==
    /\ ServedRequests < MaxServiceRequests
    /\ sessions' = [sessions EXCEPT ![1].requests = @ + 1]
    /\ IF ~answer_accepted(u, q)
       THEN /\ ret' = [op |-> "answer", user |-> u, question |-> q, ok |-> FALSE,
                       error |-> "NotFound"]
            /\ UNCHANGED <<quiz_answers, masteries, updates>>
       ELSE LET question == Questions[q]
                correct == is_correct(chosen_option, question)
                tbl == TableAfterGetOrCreate(masteries, u, question.topic_id)
                i == FindMastery(tbl, u, question.topic_id)
            IN  /\ quiz_answers' = Append(quiz_answers,
                                          [user_id |-> u, question_id |-> q,
                                           chosen_option |-> chosen_option,
                                           correct |-> correct, created_at |-> now])
                /\ updates' = [updates EXCEPT ![<<u, question.topic_id>>] = @ + 1]
                /\ masteries' = [tbl EXCEPT ![i] = UpdatedMastery(tbl[i], correct)]
                /\ ret' = [op |-> "answer", user |-> u, question |-> q, ok |-> TRUE,
                           correct |-> correct,
                           correct_option |-> question.correct_option,
                           topic_id |-> question.topic_id,
                           old |-> tbl[i],
                           new_mastery_score |-> masteries'[i].mastery_score]
    /\ UNCHANGED <<compensated_sum, plan_logs, users, topics, now, otp_storage>>

NextPlan ==
    \/ \E u \in UserIds, d \in PlanDurations, focus \in PlanFocus, quiz \in BOOLEAN :
          GenerateStudyPlan(u, d, focus, quiz)
    \/ \E u \in UserIds, q \in QuestionIds, o \in Options : SubmitAnswer(u, q, o)

SpecPlan == InitPlan /\ [][NextPlan]_vars

(* The same service on stores whose records have all been reviewed: a very  *)
(* weak record reviewed today, a weak record reviewed four days ago and a   *)
(* mastered one. The review ranking and the priority tag of these records   *)
(* come from different formulas of mastery/service.py.                      *)
OrderRows == 3

OrderRecords(t) ==
    {SeedMastery(1, t, 250, PlanNow), SeedMastery(1, t, 650, 0), SeedMastery(1, t, 900, 0)}

InitOrder ==
    /\ compensated_sum \in BOOLEAN
    /\ otp_storage = NoOtp
    /\ plan_logs = << >>
    /\ quiz_answers = << >>
    /\ sessions = NoSessions
    /\ users = 1..NumUsers
    /\ topics = [i \in 1..PlanTopics |-> i]
    /\ now = PlanNow
    /\ \E n \in 0..OrderRows :
          \E rows \in [1..n -> UNION {OrderRecords(t) : t \in 1..OrderRows}] :
              /\ \A t \in 1..n : rows[t].topic_id = t
              /\ masteries = rows
    /\ ret = [op |-> "init"]
    /\ updates = NoUpdates

SpecOrder == InitOrder /\ [][NextPlan]_vars

\* ------------------------------------------------------ one-time passwords
\* AuthService of one server process: its endpoints are coroutines that call
\* the service without awaiting, so the calls are served one at a time. The
\* clock counts minutes here.
OTP_EXPIRY_MINUTES == 5
OTP_PROVIDER == "mock"

NumPhones == 2
NumCodes == 2
MaxMinutes == 7

Phones == 1..NumPhones

\* generate_otp draws the digits at random: any code
Codes == 1..NumCodes

\* utils.timestamps.is_expired at time at
is_expired(dt, expiry_minutes, at) == at > dt + expiry_minutes

\* del otp_storage[phone_number]
Deleted(storage, p) == [q \in (DOMAIN storage) \ {p} |-> storage[q]]

\* otp_data["verified"] = True
MarkedVerified(storage, p) == [storage EXCEPT ![p].verified = TRUE]

\* A verification that marks the code and leaves it in the storage
StorageAfterVerifyKept(storage, p) == MarkedVerified(storage, p)

\* otp_storage after a successful verify_otp: marked, then deleted
StorageAfterVerify(storage, p) == Deleted(MarkedVerified(storage, p), p)

\* No account yet; the account of a phone number has the number as its id
InitAuth ==
    /\ compensated_sum = FALSE
    /\ otp_storage = NoOtp
    /\ plan_logs = << >>
    /\ quiz_answers = << >>
    /\ sessions = NoSessions
    /\ users = {}
    /\ topics = << >>
    /\ now = 0
    /\ masteries = << >>
    /\ ret = [op |-> "init"]
    /\ updates = NoUpdates

\* AuthService.generate_and_send_otp(p): the code is stored before the
\* provider is looked at
GenerateAndSendOtp(p) ==
    /\ \E otp_code \in Codes :
          /\ otp_storage' = (p :> [code |-> otp_code, created_at |-> now,
                                   verified |-> FALSE]) @@ otp_storage
          /\ ret' = IF OTP_PROVIDER \in {"mock", "kavenegar"}
                    THEN [op |-> "request_otp", phone |-> p, ok |-> TRUE,
                          code |-> otp_code, expires_in |-> OTP_EXPIRY_MINUTES]
                    ELSE [op |-> "request_otp", phone |-> p, ok |-> FALSE,
                          error |-> "NotConfigured"]
    /\ UNCHANGED <<compensated_sum, plan_logs, quiz_answers, sessions, users, topics,
                   now, masteries, updates>>

\* AuthService.verify_otp(p, otp_code); committed tells whether the commit
\* of a new account goes through
VerifyOtp(p, otp_code, committed) ==
    /\ IF p \notin DOMAIN otp_storage
       THEN /\ ret' = [op |-> "verify", phone |-> p, code |-> otp_code, ok |-> FALSE,
                       error |-> "NotFound"]
            /\ UNCHANGED <<otp_storage, users>>
       ELSE IF is_expired(otp_storage[p].created_at, OTP_EXPIRY_MINUTES, now)
       THEN /\ otp_storage' = Deleted(otp_storage, p)
            /\ ret' = [op |-> "verify", phone |-> p, code |-> otp_code, ok |-> FALSE,
                       error |-> "Expired"]
            /\ UNCHANGED users
       ELSE IF otp_storage[p].code # otp_code
       THEN /\ ret' = [op |-> "verify", phone |-> p, code |-> otp_code, ok |-> FALSE,
                       error |-> "Invalid"]
            /\ UNCHANGED <<otp_storage, users>>
       ELSE IF p \notin users /\ ~committed
       THEN /\ otp_storage' = MarkedVerified(otp_storage, p)
            /\ ret' = [op |-> "verify", phone |-> p, code |-> otp_code, ok |-> FALSE,
                       error |-> "DatabaseError"]
            /\ UNCHANGED users
       ELSE /\ users' = users \cup {p}
            /\ otp_storage' = StorageAfterVerify(otp_storage, p)
            /\ ret' = [op |-> "verify", phone |-> p, code |-> otp_code, ok |-> TRUE,
                       user |-> p, created |-> p \notin users]
    /\ UNCHANGED <<compensated_sum, plan_logs, quiz_answers, sessions, topics, now,
                   masteries, updates>>

NextAuth ==
    \/ now < MaxMinutes /\ Tick
    \/ \E p \in Phones : GenerateAndSendOtp(p)
    \/ \E p \in Phones, otp_code \in Codes, committed \in BOOLEAN :
          VerifyOtp(p, otp_code, committed)

SpecAuth == InitAuth /\ [][NextAuth]_vars


Rows == {masteries[i] : i \in 1..Len(masteries)}

\* C1: in every reachable state every mastery record's score lies in
\* [0.0, 1.0].
C1_ScoreInRange ==
    \A i \in 1..Len(masteries) :
        0 <= masteries[i].mastery_score /\ masteries[i].mastery_score <= Scale

\* A correct answer on a record at 1.0 and, before it, an incorrect answer
\* on a record at 0.0: both clamps have acted
C1_Witness ==
    /\ ret.op = "update"
    /\ ret.correct
    /\ ret.old.mastery_score = Scale
    /\ ret.value.mastery_score = Scale
    /\ \E i \in 1..Len(masteries) :
          masteries[i].mastery_score = 0 /\ masteries[i].review_count > 0

\* C4: every update_mastery_from_quiz call succeeds, adds exactly 1 to the
\* record's review_count and sets last_reviewed_at to the current time; a
\* lazily created record that was updated n times has review_count n.
C4_UpdateCounts ==
    /\ ret.op = "update" =>
          /\ ret.ok
          /\ ret.value.review_count = ret.old.review_count + 1
          /\ ret.value.last_reviewed_at = now
          /\ FindMastery(masteries, ret.user, ret.topic) # 0
          /\ masteries[FindMastery(masteries, ret.user, ret.topic)] = ret.value
    /\ \A i \in 1..Len(masteries) :
          masteries[i].review_count
              = updates[<<masteries[i].user_id, masteries[i].topic_id>>]
    /\ \A k \in DOMAIN updates :
          updates[k] > 0 => FindMastery(masteries, k[1], k[2]) # 0

\* A record updated twice, the second time later than the first and with an
\* incorrect answer
C4_Witness ==
    /\ ret.op = "update"
    /\ ~ret.correct
    /\ ret.value.review_count = 2
    /\ ret.old.last_reviewed_at # Never
    /\ ret.old.last_reviewed_at < now

\* C5: operations executed one at a time leave at most one mastery record
\* per (user, topic), and a record created on first access (not yet
\* updated) has score 0.0, review_count 0 and no last_reviewed_at.
C5_OneRecordPerPair ==
    /\ \A i, j \in 1..Len(masteries) :
          (/\ masteries[i].user_id = masteries[j].user_id
           /\ masteries[i].topic_id = masteries[j].topic_id) => i = j
    /\ \A i \in 1..Len(masteries) :
          updates[<<masteries[i].user_id, masteries[i].topic_id>>] = 0 =>
              /\ masteries[i].mastery_score = 0
              /\ masteries[i].review_count = 0
              /\ masteries[i].last_reviewed_at = Never
    /\ (ret.op = "get_or_create" /\ ret.ok /\ ret.created) =>
          /\ ret.value.mastery_score = 0
          /\ ret.value.review_count = 0
          /\ ret.value.last_reviewed_at = Never

\* The pair is accessed again after its record was created and updated, next
\* to a record created by a plan with focus topics
C5_Witness ==
    /\ ret.op = "get_or_create"
    /\ ret.ok
    /\ ~ret.created
    /\ ret.value.review_count > 0
    /\ Len(masteries) = NumUsers * NumTopics

\* ====================================================================
\* Properties of the update rule on every score (SpecUpdate)
\* ====================================================================

Abs(x) == IF x >= 0 THEN x ELSE -x

C3_IncorrectUpdate ==
    (ret.op = "update" /\ ~ret.correct) =>
        LET s == ret.old.mastery_score
            n == ret.value.mastery_score
        IN  /\ n = (IF s >= MASTERY_INCORRECT_DECREMENT
                    THEN s - MASTERY_INCORRECT_DECREMENT ELSE 0)
            /\ n >= 0
            /\ n <= s

\* An incorrect answer on a score between 0.0 and 0.05 is clamped at 0.0
C3_Witness ==
    /\ ret.op = "update"
    /\ ~ret.correct
    /\ ret.old.mastery_score > 0
    /\ ret.old.mastery_score < MASTERY_INCORRECT_DECREMENT
    /\ ret.value.mastery_score = 0

\* ====================================================================
\* Properties of the priority tag (SpecPriority)
\* ====================================================================

\* C7: calculate_review_priority gives every record exactly one of the three
\* tags: HIGH exactly when score < 0.70 and days > 2, a record never
\* reviewed counting as more days than any threshold; LOW exactly when
\* score >= 0.85; MEDIUM in every other case.
C7_PriorityTag ==
    ret.op = "priority" =>
        LET m == ret.mastery
            overdue == m.last_reviewed_at = Never \/ days_since(m.last_reviewed_at) > 2
            high == m.mastery_score < 700 /\ overdue
            low == m.mastery_score >= 850
        IN  /\ ret.value \in {"HIGH", "MEDIUM", "LOW"}
            /\ ret.value = "HIGH" <=> high
            /\ ret.value = "LOW" <=> low
            /\ ret.value = "MEDIUM" <=> (~high /\ ~low)

\* A record between 0.70 and 0.85 last reviewed more than 7 days ago is
\* tagged MEDIUM
C7_Witness ==
    /\ ret.op = "priority"
    /\ ret.value = "MEDIUM"
    /\ ret.mastery.mastery_score >= 700
    /\ ret.mastery.mastery_score < 850
    /\ ret.mastery.last_reviewed_at # Never
    /\ days_since(ret.mastery.last_reviewed_at) > 7

\* Ticks since the record was last reviewed
Elapsed(m) == now - m.last_reviewed_at

\* C8 as claimed: a record just updated is never HIGH; a reviewed record
\* with score < 0.70 is MEDIUM for as long as at most 2 days have passed
\* since its last update and HIGH once more than 2 days have passed, until
\* the next update.
C8_AsClaimed ==
    /\ ret.op = "update" => calculate_review_priority(ret.value) # "HIGH"
    /\ \A i \in 1..Len(masteries) :
          LET m == masteries[i]
          IN  (m.last_reviewed_at # Never /\ m.mastery_score < 700) =>
                  /\ Elapsed(m) <= 2 * TicksPerDay
                        => calculate_review_priority(m) = "MEDIUM"
                  /\ Elapsed(m) > 2 * TicksPerDay
                        => calculate_review_priority(m) = "HIGH"

\* C8, amended: a record just updated is never HIGH; a reviewed record with
\* score < 0.70 is MEDIUM until 3 full days have passed since its last
\* update (days_since counts whole days, so 2 days and 23 hours are 2 days),
\* and HIGH from then on until the next update.
C8_RecentlyReviewed ==
    /\ ret.op = "update" => calculate_review_priority(ret.value) # "HIGH"
    /\ \A i \in 1..Len(masteries) :
          LET m == masteries[i]
          IN  (m.last_reviewed_at # Never /\ m.mastery_score < 700) =>
                  /\ Elapsed(m) < 3 * TicksPerDay
                        => calculate_review_priority(m) = "MEDIUM"
                  /\ Elapsed(m) >= 3 * TicksPerDay
                        => calculate_review_priority(m) = "HIGH"

\* A weak record updated in this run is read as HIGH 3 days after the update
C8_Witness ==
    /\ ret.op = "priority"
    /\ ret.value = "HIGH"
    /\ updates[<<1, 1>>] > 0
    /\ ret.mastery.last_reviewed_at > 0
    /\ Elapsed(ret.mastery) = 3 * TicksPerDay
\* ====================================================================
\* Properties of the weak-topic ranking (SpecRank)
\* ====================================================================

\* The ranking priority as the documentation states it, in units of
\* 1/Scale: (1 - score) * 100, plus 50 for a record never reviewed and
\* min(days since the last review * 5, 50) otherwise
RankPriority(m) ==
    (Scale - m.mastery_score) * 100
    + (IF m.last_reviewed_at = Never
       THEN 50 * Scale
       ELSE IF ((now - m.last_reviewed_at) \div TicksPerDay) * 5 < 50
       THEN ((now - m.last_reviewed_at) \div TicksPerDay) * 5 * Scale
       ELSE 50 * Scale)

\* The position in the store of a record
StorePos(m) == CHOOSE i \in 1..Len(masteries) : masteries[i] = m

\* m stands before n in the stable descending sort by RankPriority
RanksBefore(m, n) ==
    \/ RankPriority(m) > RankPriority(n)
    \/ RankPriority(m) = RankPriority(n) /\ StorePos(m) < StorePos(n)

\* C9: get_weak_topics_for_review(user, limit) returns the first `limit`
\* of the user's mastery records after a stable sort by descending
\* priority: the result holds min(limit, number of the user's records)
\* distinct records of the user, each result record ranks before the next
\* one, and every record of the user left out ranks behind every record
\* returned -- where higher priority ranks first and, at equal priority,
\* the record earlier in the store.
C9_WeakTopicsRanking ==
    ret.op = "weak_topics" =>
        LET out == ret.value
            mine == {m \in Rows : m.user_id = ret.user}
        IN  /\ Len(out) = Min(ret.limit, Cardinality(mine))
            /\ \A k \in 1..Len(out) : out[k] \in mine
            /\ \A k, l \in 1..Len(out) : k < l => RanksBefore(out[k], out[l])
            /\ \A m \in mine \ Range(out), k \in 1..Len(out) : RanksBefore(out[k], m)

\* A ranking of three records that cuts a tie: the two records returned
\* have the priority of the record left out, one of them was reviewed
\* more than ten days ago and one was never reviewed
C9_Witness ==
    /\ ret.op = "weak_topics" /\ ret.user = 1 /\ ret.limit = 2
    /\ Len(ret.input) = 3 /\ Len(ret.value) = 2
    /\ \A m \in Range(ret.input) : RankPriority(m) = RankPriority(ret.value[1])
    /\ \E m \in Range(ret.value) : m.last_reviewed_at = Never
    /\ \E m \in Range(ret.value) :
          m.last_reviewed_at # Never /\ now - m.last_reviewed_at > 10 * TicksPerDay
    /\ ret.value[1].topic_id > ret.value[2].topic_id

\* ====================================================================
\* Properties of the focus-topic selection (Spec)
\* ====================================================================

\* The mastery record of (u, t) in the table tbl, or a new one
ExistingOrNew(tbl, u, t) ==
    IF FindMastery(tbl, u, t) # 0 THEN tbl[FindMastery(tbl, u, t)] ELSE NewMastery(u, t)

\* C10: when focus topic ids are given, the candidates of the plan are
\* exactly the given topics, in the order the ids were given, each with
\* its existing or newly created mastery record and its priority tag.
\* Stated for the requests that name existing topics, each once.
C10_FocusTopicsAsGiven ==
    (/\ ret.op = "focus"
     /\ Range(ret.ids) \subseteq Topics
     /\ \A i, j \in 1..Len(ret.ids) : ret.ids[i] = ret.ids[j] => i = j) =>
        /\ Len(ret.value) = Len(ret.ids)
        /\ \A k \in 1..Len(ret.value) :
              /\ k \in 1..Len(ret.ids)
              /\ ret.value[k].topic = ret.ids[k]
              /\ ret.value[k].mastery = ExistingOrNew(ret.before, ret.user, ret.ids[k])
              /\ ret.value[k].priority = calculate_review_priority(ret.value[k].mastery)

\* ====================================================================
\* Properties of simultaneous updates (SpecConc)
\* ====================================================================

\* Two sessions have each served one update of the same record, of
\* user 1 and topic 1, and no other update was made
TwoUpdatesDone ==
    /\ \A p \in {1, 2} :
          /\ sessions[p].pc = "done"
          /\ sessions[p].requests = 1
          /\ sessions[p].user = 1
          /\ sessions[p].topic = 1
    /\ TotalUpdates = 2

\* C6: when two update_mastery_from_quiz calls for the same (user, topic)
\* are interleaved, the final record equals the result of applying the two
\* updates one after the other in some order: review_count grows by 2 and
\* neither score change is lost.
C6_InterleavedUpdatesSerial ==
    TwoUpdatesDone =>
        LET m == masteries[FindMastery(masteries, 1, 1)]
            c1 == sessions[1].correct
            c2 == sessions[2].correct
        IN  /\ m.review_count = 2
            /\ \/ m.mastery_score = NewScore(NewScore(MASTERY_INITIAL_SCORE, c1), c2)
               \/ m.mastery_score = NewScore(NewScore(MASTERY_INITIAL_SCORE, c2), c1)

\* --------------------------------------------------------------------
RECURSIVE SumSeq(_)
SumSeq(xs) == IF xs = << >> THEN 0 ELSE Head(xs) + SumSeq(Tail(xs))

\* C12: for every non-empty candidate list, and so for every one with
\* total_minutes >= 20 * len(candidates), the allocations of _allocate_time
\* are one per candidate and sum to exactly total_minutes.
C12_AllocationsSumToTotal ==
    (ret.op = "allocate" /\ ret.priorities # << >>) =>
        /\ Len(ret.value) = Len(ret.priorities)
        /\ SumSeq(ret.value) = ret.total_minutes

\* C12 witness: three candidates share at least 60 minutes that do not
\* divide evenly; the last one takes the minutes rounding left over.
C12_Witness ==
    /\ ret.op = "allocate"
    /\ Len(ret.priorities) = 3
    /\ ret.total_minutes >= MIN_BLOCK_MINUTES * 3
    /\ ret.value[1] = ret.value[2]
    /\ ret.value[3] > ret.value[1]
    /\ ret.priorities[1] = ret.priorities[3]

\* The weights of the tags in tenths, and the exact quotient
\* floor(weight_i / sum(weights) * total_minutes)
WeightTenths(priority) ==
    IF priority = "HIGH" THEN 15 ELSE IF priority = "MEDIUM" THEN 10 ELSE 7

RECURSIVE SumTenths(_)
SumTenths(ps) == IF ps = << >> THEN 0 ELSE WeightTenths(Head(ps)) + SumTenths(Tail(ps))

ExactShare(ps, i, total_minutes) == (WeightTenths(ps[i]) * total_minutes) \div SumTenths(ps)

\* C14: every candidate but the last gets
\* max(20, floor(weight_i / sum(weights) * total_minutes)) minutes, with
\* weights HIGH 1.5, MEDIUM 1.0, LOW 0.7.
C14_ProportionalFloor ==
    ret.op = "allocate" =>
        \A i \in 1..(Len(ret.priorities) - 1) :
            ret.value[i] = Max(MIN_BLOCK_MINUTES,
                               ExactShare(ret.priorities, i, ret.total_minutes))

\* --------------------------------------------------------------------
\* A plan was returned for a request without focus topics
AdaptivePlan == ret.op = "plan" /\ ret.ok /\ ret.focus_topics = << >>

\* C11: without focus topics the plan has at most
\* min(10, max(3, duration_minutes // 35)) blocks, and its blocks are the
\* first records of the weak-topic ranking of the user, in ranking order.
C11_CandidateCap ==
    AdaptivePlan =>
        LET ranking == get_weak_topics_for_review(ret.before, ret.user, 10)
            blocks == ret.plan.blocks
        IN  /\ Len(blocks) <= Min(10, Max(3, ret.duration_minutes \div 35))
            /\ Len(blocks) <= Len(ranking)
            /\ Len(ret.value.blocks) = Len(blocks)
            /\ \A k \in 1..Len(blocks) :
                  /\ blocks[k].topic_id = ranking[k].topic_id
                  /\ ret.value.blocks[k].topic_id = ranking[k].topic_id

\* C11 witness: the user has four records and asks for 120 minutes; the
\* plan has the three blocks the cap allows.
C11_Witness ==
    /\ AdaptivePlan
    /\ Len(UserMasteries(ret.before, ret.user)) = 4
    /\ ret.duration_minutes = 120
    /\ Len(ret.plan.blocks) = 3

\* A plan was returned
PlanReturned == ret.op = "plan" /\ ret.ok

\* C13: every block of every returned plan lasts at least 20 minutes,
\* the last block included, for every duration of 30..300 minutes.
C13_BlockAtLeast20 ==
    PlanReturned =>
        \A k \in 1..Len(ret.value.blocks) : ret.value.blocks[k].duration_minutes >= 20

\* Selection has nothing to offer: without focus topics the user has no
\* mastery record, with focus topics none of the ids is a topic
NothingToStudy ==
    IF ret.focus_topics = << >>
    THEN UserMasteries(ret.before, ret.user) = << >>
    ELSE Range(ret.focus_topics) \cap Topics = {}

\* C15: when selection yields no candidates the request succeeds with a
\* plan of zero blocks, total_topics = 0, average mastery 0.0 and a
\* message, and only then is total_topics = 0.
C15_EmptyPlan ==
    ret.op = "plan" /\ ret.user \in Users =>
        /\ ret.ok
        /\ NothingToStudy <=> ret.plan.total_topics = 0
        /\ NothingToStudy <=> ret.value.total_topics = 0
        /\ NothingToStudy =>
              /\ ret.plan.blocks = << >>
              /\ ret.plan.average_current_mastery.sum = 0
              /\ "message" \in DOMAIN ret.plan
              /\ ret.value.blocks = << >>
              /\ ret.value.average_current_mastery = 0

\* C15 witness: the user has records, but the only focus id names no
\* topic; the plan is empty.
C15_Witness ==
    /\ PlanReturned
    /\ ret.focus_topics # << >>
    /\ ret.before # << >>
    /\ ret.plan.total_topics = 0
    /\ "message" \in DOMAIN ret.plan

\* The review share in tenths for a mastery score
ShareTenths(score) == IF score < 300 THEN 6 ELSE IF score < 700 THEN 5 ELSE 4

\* C16: every block has review = floor(allocated * f) minutes with f = 0.6,
\* 0.5 or 0.4 by score, practice = allocated - review, and
\* max(3, practice // 2) suggested questions, at least 3.
C16_TimeSplit ==
    PlanReturned =>
        \A k \in 1..Len(ret.plan.blocks) :
            LET block == ret.plan.blocks[k]
                review == (block.duration_minutes * ShareTenths(block.current_mastery)) \div 10
                practice == block.duration_minutes - review
            IN  /\ block.review_material.minutes = review
                /\ block.quiz_question_count = Max(3, practice \div 2)
                /\ block.quiz_question_count >= 3

\* C17: in a plan with blocks, total_topics is the number of blocks,
\* focus_areas is the names of the first min(3, n) blocks in order, and
\* average_current_mastery is the mean of the blocks' mastery snapshots
\* (in the response rounded to three decimals).
C17_SummaryAgreesWithBlocks ==
    (PlanReturned /\ ret.plan.blocks # << >>) =>
        LET blocks == ret.value.blocks
            n == Len(blocks)
            total == SumSeq([k \in 1..n |-> blocks[k].current_mastery])
        IN  /\ ret.plan.total_topics = n
            /\ ret.value.total_topics = n
            /\ Len(ret.plan.blocks) = n
            /\ ret.value.focus_areas = SubSeq([k \in 1..n |-> blocks[k].topic], 1, Min(3, n))
            /\ ret.plan.focus_areas = ret.value.focus_areas
            /\ ret.plan.average_current_mastery.count = n
            /\ ret.plan.average_current_mastery.sum = total
            /\ 2 * Abs(ret.value.average_current_mastery * n - total) <= n

\* C17 witness: a plan of four blocks whose fourth snapshot is not 0.0;
\* three of the four topics are focus areas.
C17_Witness ==
    /\ PlanReturned
    /\ Len(ret.value.blocks) = 4
    /\ Len(ret.value.focus_areas) = 3
    /\ ret.value.blocks[4].current_mastery > 0
    /\ ret.value.average_current_mastery > 0

\* C18: when the summary or the quiz of one block fails, the response
\* still has every planner block, in order, with the same topic, duration,
\* priority and mastery snapshot; the failed block has the placeholder text
\* or no questions, and the other blocks are as they are without failure.
C18_EnrichmentFailureKeepsBlocks ==
    ret.op = "plan" /\ ret.user \in Users =>
        /\ ret.ok
        /\ Len(ret.value.blocks) = Len(ret.plan.blocks)
        /\ \A k \in 1..Len(ret.plan.blocks) :
              LET planned == ret.plan.blocks[k]
                  block == ret.value.blocks[k]
                  unfailed == study_plan_response(ret.plan, ret.include_quiz, {}).blocks[k]
              IN  /\ block.topic_id = planned.topic_id
                  /\ block.topic = planned.topic
                  /\ block.duration_minutes = planned.duration_minutes
                  /\ block.priority = planned.priority
                  /\ block.current_mastery = planned.current_mastery
                  /\ <<k, "summary">> \in ret.failures =>
                        block.review_material = <<"Study materials for", planned.topic>>
                  /\ <<k, "quiz">> \in ret.failures => block.quiz_questions = << >>
                  /\ <<k, "summary">> \notin ret.failures =>
                        block.review_material = unfailed.review_material
                  /\ <<k, "quiz">> \notin ret.failures =>
                        block.quiz_questions = unfailed.quiz_questions

\* C18 witness: the quiz of the first block failed; the second block has
\* its questions and its summary.
C18_Witness ==
    /\ PlanReturned
    /\ ret.include_quiz
    /\ ret.failures = {<<1, "quiz">>}
    /\ Len(ret.value.blocks) >= 2
    /\ ret.value.blocks[1].quiz_questions = << >>
    /\ ret.value.blocks[2].quiz_questions # << >>
    /\ ret.value.blocks[2].review_material = <<"summary", ret.value.blocks[2].topic_id>>

\* C19: a request of an existing user returns its plan whether or not the
\* log row could be written: the response is the one built from the plan
\* and the enrichment alone, and a written log row holds that response.
C19_LogFailureHarmless ==
    ret.op = "plan" /\ ret.user \in Users =>
        /\ ret.ok
        /\ ret.value = study_plan_response(ret.plan, ret.include_quiz, ret.failures)
        /\ ret.logged =>
              /\ plan_logs # << >>
              /\ plan_logs[Len(plan_logs)].plan_json = ret.value

\* C19 witness: the log write failed, no row was written, and the plan
\* with its blocks was returned.
C19_Witness ==
    /\ PlanReturned
    /\ ~ret.logged
    /\ plan_logs = << >>
    /\ ret.value.blocks # << >>

\* A request was answered with not-found
NotFoundReported == ret.op \in {"plan", "answer"} /\ ~ret.ok /\ ret.error = "NotFound"

\* C20: submit_answer for an unknown user or question and
\* generate_study_plan for an unknown user report not-found, and a request
\* that reports not-found stores no answer, creates or changes no mastery
\* record and writes no plan log.
C20_NotFoundChangesNothing ==
    [][/\ (ret'.op = "plan" /\ ret'.user \notin Users) => NotFoundReported'
       /\ (ret'.op = "answer" /\ ret'.user \notin Users) => NotFoundReported'
       /\ (ret'.op = "answer" /\ ret'.question \notin DOMAIN Questions) => NotFoundReported'
       /\ NotFoundReported' => UNCHANGED <<quiz_answers, masteries, plan_logs, updates>>]_vars

\* C20 witness: user 1 answered a question that does not exist, with
\* mastery records in the store; not-found was reported.
C20_Witness ==
    /\ NotFoundReported
    /\ ret.op = "answer"
    /\ ret.user \in Users
    /\ ret.question \notin DOMAIN Questions
    /\ masteries # << >>
    /\ quiz_answers = << >>

\* --------------------------------------------------------------------
\* C21: a successful submit_answer stores exactly one QuizAnswer and
\* applies exactly one mastery update, to the record of the submitting user
\* and the question's topic, with correct = (chosen option = the question's
\* correct option); new_mastery_score is that record's score afterwards.
C21_SubmitAnswerEffect ==
    [][(ret'.op = "answer" /\ ret'.ok) =>
          LET u == ret'.user
              q == ret'.question
              t == Questions[q].topic_id
              answer == quiz_answers'[Len(quiz_answers')]
              before == FindMastery(masteries, u, t)
              old == IF before # 0 THEN masteries[before]
                     ELSE [user_id |-> u, topic_id |-> t, mastery_score |-> 0,
                           review_count |-> 0, last_reviewed_at |-> Never]
              i == FindMastery(masteries', u, t)
          IN  /\ quiz_answers' = Append(quiz_answers, answer)
              /\ answer.user_id = u
              /\ answer.question_id = q
              /\ answer.correct = (answer.chosen_option = Questions[q].correct_option)
              /\ ret'.correct = answer.correct
              /\ updates' = [updates EXCEPT ![<<u, t>>] = @ + 1]
              /\ i # 0
              /\ Len(masteries') = Len(masteries) + (IF before # 0 THEN 0 ELSE 1)
              /\ \A j \in 1..Len(masteries) : j # i => masteries'[j] = masteries[j]
              /\ masteries'[i] =
                    [old EXCEPT !.mastery_score = NewScore(old.mastery_score, answer.correct),
                                !.review_count = old.review_count + 1,
                                !.last_reviewed_at = now]
              /\ ret'.new_mastery_score = masteries'[i].mastery_score]_vars

\* C21 witness: a wrong answer on a topic whose record holds 0.65 was
\* stored and the record went down to 0.6.
C21_Witness ==
    /\ ret.op = "answer"
    /\ ret.ok
    /\ ~ret.correct
    /\ Len(quiz_answers) = 1
    /\ ret.old.mastery_score = 650
    /\ ret.new_mastery_score = 600
    /\ TotalUpdates = 1

(* Rank of a priority tag: HIGH above MEDIUM above LOW. *)
TagRank(tag) == IF tag = "HIGH" THEN 3 ELSE IF tag = "MEDIUM" THEN 2 ELSE 1

(* C22: in any generated plan a block whose priority tag is higher never    *)
(* receives fewer minutes than a block whose tag is lower.                  *)
C22_HigherTagNoFewerMinutes ==
    PlanReturned =>
        \A i, j \in 1..Len(ret.plan.blocks) :
            TagRank(ret.plan.blocks[i].priority) > TagRank(ret.plan.blocks[j].priority)
                => ret.plan.blocks[i].duration_minutes >= ret.plan.blocks[j].duration_minutes

(* C23: the blocks of an adaptive plan are in priority order, HIGH before   *)
(* MEDIUM before LOW, so that the focus areas are the highest tags.         *)
C23_BlocksInTagOrder ==
    AdaptivePlan =>
        \A i, j \in 1..Len(ret.plan.blocks) :
            i < j => TagRank(ret.plan.blocks[i].priority) >= TagRank(ret.plan.blocks[j].priority)

(* C24: a topic whose mastery is 0.85 or more appears in a plan only when   *)
(* the request names it as a focus topic.                                   *)
C24_MasteredOnlyByFocus ==
    PlanReturned =>
        \A k \in 1..Len(ret.plan.blocks) :
            ret.plan.blocks[k].current_mastery >= 850
                => \E f \in 1..Len(ret.focus_topics) :
                       ret.focus_topics[f] = ret.plan.blocks[k].topic_id

(* C25: get_topic_mastery_detail for a topic id that does not exist        *)
(* reports not-found and leaves the mastery store as it was.                *)
C25_MissingTopicNotFound ==
    [][(ret'.op = "detail" /\ ret'.topic \notin Topics)
          => /\ ~ret'.ok
             /\ ret'.error = "NotFound"
             /\ masteries' = masteries]_vars

(* C26: generating a study plan changes no existing mastery record; it     *)
(* only appends a default record for each existing focus topic the user has *)
(* no record of, and without focus topics the store stays as it was.        *)
C26_PlanKeepsRecords ==
    [][ret'.op = "plan" =>
          IF ~ret'.ok THEN masteries' = masteries
          ELSE LET u == ret'.user
                   created == {t \in Range(ret'.focus_topics) \cap Topics :
                                  FindMastery(masteries, u, t) = 0}
               IN  /\ Len(masteries') = Len(masteries) + Cardinality(created)
                   /\ \A j \in 1..Len(masteries) : masteries'[j] = masteries[j]
                   /\ \A j \in (Len(masteries) + 1)..Len(masteries') :
                          /\ masteries'[j].topic_id \in created
                          /\ masteries'[j] = NewMastery(u, masteries'[j].topic_id)
                   /\ \A t \in created : FindMastery(masteries', u, t) # 0
                   /\ ret'.focus_topics = << >> => masteries' = masteries]_vars

C26_Witness ==
    /\ PlanReturned
    /\ ret.focus_topics = <<2, 1>>
    /\ Len(ret.before) = 1
    /\ ret.before[1].mastery_score = 650
    /\ Len(masteries) = 2
    /\ masteries[1] = ret.before[1]
    /\ masteries[2] = NewMastery(1, 2)

(* C27: in every reachable state a mastery record has review_count = 0     *)
(* exactly when its last_reviewed_at is unset, and such a record has score  *)
(* 0.0; a record with a score above 0.0 has been reviewed at least once.    *)
C27_ReviewedConsistent ==
    \A i \in 1..Len(masteries) :
        /\ masteries[i].review_count = 0 <=> masteries[i].last_reviewed_at = Never
        /\ masteries[i].review_count = 0 => masteries[i].mastery_score = 0
        /\ masteries[i].mastery_score > 0 => masteries[i].review_count >= 1

C27_Witness ==
    \E i, j \in 1..Len(masteries) :
        /\ masteries[i].review_count = 0
        /\ masteries[i].last_reviewed_at = Never
        /\ masteries[j].mastery_score > 0
        /\ masteries[j].review_count >= 2
        /\ masteries[j].last_reviewed_at >= 1

(* C28: the suggested question count of every block of every plan is in   *)
(* the range 1..20 the quiz generation request accepts.                     *)
C28_QuestionCountAccepted ==
    PlanReturned =>
        \A k \in 1..Len(ret.plan.blocks) :
            ret.plan.blocks[k].quiz_question_count \in 1..MAX_QUIZ_COUNT

(* C29: when two get_or_create_mastery calls for the same (user, topic)   *)
(* interleave, one record exists for the pair and neither call ends with   *)
(* an error.                                                                *)
C29_InterleavedCreateReturns ==
    /\ \A i, j \in 1..Len(masteries) :
           (masteries[i].user_id = masteries[j].user_id
              /\ masteries[i].topic_id = masteries[j].topic_id) => i = j
    /\ \A p \in Sessions :
           sessions[p].pc # "failed"
           /\ (sessions[p].pc = "loaded"
                 => FindMastery(masteries, sessions[p].user, sessions[p].topic) # 0)

(* C30: an issued OTP gives at most one successful verification. A        *)
(* verify_otp succeeds only on the stored code and removes it; while no    *)
(* code is stored for a phone number every verify_otp for it fails; only   *)
(* generate_and_send_otp for that number stores a code; and an attempt     *)
(* with a wrong code leaves the stored OTP in place.                        *)
C30_OtpVerifiedOnce ==
    [][/\ (ret'.op = "verify" /\ ret'.ok)
            => /\ ret'.phone \in DOMAIN otp_storage
               /\ otp_storage[ret'.phone].code = ret'.code
               /\ ret'.phone \notin DOMAIN otp_storage'
       /\ (ret'.op = "verify" /\ ret'.phone \notin DOMAIN otp_storage) => ~ret'.ok
       /\ \A p \in Phones :
              (p \notin DOMAIN otp_storage /\ p \in DOMAIN otp_storage')
                  => ret'.op = "request_otp" /\ ret'.phone = p
       /\ (ret'.op = "verify" /\ ~ret'.ok /\ ret'.error = "Invalid")
            => otp_storage' = otp_storage]_vars

C30_Witness ==
    /\ ret.op = "verify"
    /\ ~ret.ok
    /\ ret.error = "NotFound"
    /\ ret.phone = 1
    /\ 1 \in users
    /\ 2 \in DOMAIN otp_storage
    /\ 2 \notin users

====
